---- MODULE Spec2Model ----
(***************************************************************************)
(* Model of the modulation identifier: the feature extractor               *)
(* (branch_without_normalization / branch_with_normalization), the         *)
(* classifier (identifier) and the concurrent threshold search             *)
(* (threshold_calculation with its __calculate_threshold trial threads).   *)
(*                                                                         *)
(* Numbers.  The program computes with floating point; the model computes  *)
(* the same quantities exactly.  A real is a record                        *)
(*     [kind |-> "num", num |-> n, den |-> d]   (the rational n/d, reduced) *)
(* and numpy's nan is [kind |-> "nan", ...].  An array of samples is        *)
(*     [v |-> <<sample, ...>>, d2 |-> k]                                    *)
(* where a sample is <<re, im>> (integers) and the array's actual values   *)
(* are the samples divided by sqrt(k): this keeps the 1/sqrt(2) of the     *)
(* Haar filter and the division by the Euclidean norm exact.  d2 = 0 is an *)
(* array of nan (a division of zeros by a zero norm).                      *)
(***************************************************************************)
EXTENDS Integers, Sequences, FiniteSets, TLC

(***************************************************************************)
(* Bounds of the model.                                                    *)
(***************************************************************************)
\* largest num_gen_data handed to threshold_calculation
MaxGen == 2
\* the num_sym_transmit of a run is 0 or MaxTransmit
MaxTransmit == 8
\* thresholds handed to identifier are k / (2 * MaxTransmit), k \in 0 .. MaxThreshold
MaxThreshold == 6

(***************************************************************************)
(* Program constants.                                                      *)
(***************************************************************************)
\* kernel_size of medfilt
KERNEL_SIZE == 5
\* random.uniform(0.0, 0.05): the upper end 0.05 = R_MAX_NUM / R_MAX_DEN
R_MAX_NUM == 5
R_MAX_DEN == 100

(***************************************************************************)
(* Exact arithmetic.                                                       *)
(***************************************************************************)
\* Op applied to x, with x computed once however often Op uses it
Once(Op(_), x) == CHOOSE r \in {Op(y) : y \in {x}} : TRUE

Abs(n) == IF n < 0 THEN -n ELSE n

\* Euclid's algorithm
GCD(a, b) ==
    LET gcd[x \in Nat, y \in Nat] == IF y = 0 THEN x ELSE gcd[y, x % y]
    IN  gcd[a, b]

NaN == [kind |-> "nan", num |-> 0, den |-> 0]

\* the rational n/d (d > 0) in lowest terms
Rat(n, d) ==
    LET g == GCD(Abs(n), d)
    IN  [kind |-> "num", num |-> n \div g, den |-> d \div g]

RatAdd(a, b) == Rat(a.num * b.den + b.num * a.den, a.den * b.den)

RatMul(a, b) == Rat(a.num * b.num, a.den * b.den)

RatNeg(a) == [kind |-> "num", num |-> -a.num, den |-> a.den]

\* a < b as floating point decides it: any comparison with nan is false
Less(a, b) ==
    /\ a.kind = "num"
    /\ b.kind = "num"
    /\ a.num * b.den < b.num * a.den

\* the sequence s with its elements computed once
Array(s) == s \o <<>>

SumSeq(s) ==
    Once(LAMBDA a : LET sum[i \in 0 .. Len(a)] == IF i = 0 THEN 0 ELSE sum[i - 1] + a[i]
                    IN  sum[Len(a)],
         s)

(***************************************************************************)
(* Feature extractor.                                                      *)
(***************************************************************************)
\* a signal as the program receives it: samples at scale 1
Raw(samples) == [v |-> samples, d2 |-> 1]

\* np.linalg.norm(data) squared: the sum of |sample|^2
NormSquared(data) ==
    SumSeq(Array([i \in 1 .. Len(data.v) |->
                    data.v[i][1] * data.v[i][1] + data.v[i][2] * data.v[i][2]]))

\* data / np.linalg.norm(data); a zero norm yields nan samples (0/0)
amplitude_normalization(data) ==
    [v |-> data.v, d2 |-> data.d2 * NormSquared(data)]

\* pywt.dwt raises on an empty input (a ValueError or a RuntimeError, by
\* version of the library: "DwtError" here)
TransformRaises(data) == Len(data.v) = 0

\* pywt.dwt(data, "haar"), mode "symmetric": an odd-length input is extended
\* by repeating its last sample; cA = (x0 + x1)/sqrt(2), cD = (x0 - x1)/sqrt(2)
haar_wavelet_transform(data) ==
    LET n == Len(data.v)
        m == (n + 1) \div 2
        x(i) == IF i <= n THEN data.v[i] ELSE data.v[n]
        cA == [k \in 1 .. m |->
                 <<x(2 * k - 1)[1] + x(2 * k)[1], x(2 * k - 1)[2] + x(2 * k)[2]>>]
        cD == [k \in 1 .. m |->
                 <<x(2 * k - 1)[1] - x(2 * k)[1], x(2 * k - 1)[2] - x(2 * k)[2]>>]
    IN  <<[v |-> Array(cA), d2 |-> 2 * data.d2], [v |-> Array(cD), d2 |-> 2 * data.d2]>>

\* the median of a window of KERNEL_SIZE values: the element of rank
\* KERNEL_SIZE \div 2 (counted from 0) in sorted order
Median(w) ==
    LET half == KERNEL_SIZE \div 2
        below(x) == Cardinality({j \in 1 .. Len(w) : w[j] < x})
        upto(x) == Cardinality({j \in 1 .. Len(w) : w[j] <= x})
        i == CHOOSE j \in 1 .. Len(w) : below(w[j]) <= half /\ upto(w[j]) > half
    IN  w[i]

\* medfilt(np.real(data), kernel_size=5): a sliding median of the real parts,
\* the array zero-padded at both ends; the result is a real array
median_filter(data) ==
    LET m == Len(data.v)
        half == KERNEL_SIZE \div 2
        re(i) == IF i >= 1 /\ i <= m THEN data.v[i][1] ELSE 0
        window(k) == Array([j \in 1 .. KERNEL_SIZE |-> re(k - half - 1 + j)])
    IN  [v |-> Array([k \in 1 .. m |-> <<Once(Median, window(k)), 0>>]), d2 |-> data.d2]

\* np.var(data): the population variance mean(|x - mean(x)|^2)
variance(data) ==
    LET m == Len(data.v)
        ys == Array([i \in 1 .. m |-> data.v[i][1]])
        sq == Array([i \in 1 .. m |-> data.v[i][1] * data.v[i][1]])
    IN  IF m = 0 \/ data.d2 = 0
        THEN NaN
        ELSE Rat(m * SumSeq(sq) - SumSeq(ys) * SumSeq(ys), m * m * data.d2)

\* the outcome of a feature extraction: the feature, or the exception raised
Raised(err) == [kind |-> "raise", error |-> err]
Returned(val) == [kind |-> "return", value |-> val]

branch_without_normalization(data) ==
    IF TransformRaises(data)
    THEN Raised("DwtError")
    ELSE Returned(Once(variance,
                       Once(median_filter, haar_wavelet_transform(data)[1])))

branch_with_normalization(data) ==
    Once(branch_without_normalization, amplitude_normalization(data))

(***************************************************************************)
(* Python dictionaries.  A dict is the sequence of its <<key, value>>      *)
(* items in insertion order (the order list(d.items()) enumerates).        *)
(***************************************************************************)
DictKeys(d) == {d[i][1] : i \in 1 .. Len(d)}

DictHas(d, k) == k \in DictKeys(d)

DictGet(d, k) == d[CHOOSE i \in 1 .. Len(d) : d[i][1] = k][2]

\* d[k] = v: an existing key keeps its place, a new key goes last
DictSet(d, k, v) ==
    IF DictHas(d, k)
    THEN Array([i \in 1 .. Len(d) |-> IF d[i][1] = k THEN <<k, v>> ELSE d[i]])
    ELSE Append(d, <<k, v>>)

\* a faulty update that adds the value of a key both dicts hold to the value
\* already stored, instead of replacing it
DictUpdateAdding(d, other) ==
    LET add[k \in 0 .. Len(other)] ==
            IF k = 0
            THEN d
            ELSE DictSet(add[k - 1], other[k][1],
                         IF DictHas(add[k - 1], other[k][1])
                         THEN DictGet(add[k - 1], other[k][1]) + other[k][2]
                         ELSE other[k][2])
    IN  add[Len(other)]

\* d.update(other): d[k] = v for every item of other, in other's order
RECURSIVE DictUpdate(_, _)
DictUpdate(d, other) ==
    IF other = <<>>
    THEN d
    ELSE DictUpdate(DictSet(d, Head(other)[1], Head(other)[2]), Tail(other))

(***************************************************************************)
(* The reference set.  Per generated data set DataTransmissionSimulator    *)
(* modulates one symbol stream as QAM and as PSK and adds the same noise   *)
(* to both: a transmission is such a <<QAM, PSK>> pair.  The model draws   *)
(* each pair from the patterns below, repeated to num_sym_transmit         *)
(* samples.  At 8 samples their features are                               *)
(*   QamLow 3/32, QamHigh 3/8, PskFlat 0, PskNoisy 3/32.                   *)
(***************************************************************************)
QamLow ==
    << <<0, 1>>, <<0, 0>>, <<0, -1>>, <<1, 0>>, <<0, 1>>, <<1, 1>>, <<0, 0>>, <<1, -1>> >>

QamHigh ==
    << <<0, 0>>, <<0, 2>>, <<0, 0>>, <<2, 0>>, <<0, 2>>, <<2, 0>>, <<0, 0>>, <<2, 2>> >>

PskFlat ==
    << <<1, 0>>, <<0, 1>>, <<1, 0>>, <<0, -1>>, <<1, 0>>, <<0, 1>>, <<1, 0>>, <<0, -1>> >>

PskNoisy ==
    << <<0, 1>>, <<0, 0>>, <<0, -1>>, <<1, 0>>, <<0, 0>>, <<1, 0>>, <<0, -1>>, <<1, 0>> >>

Transmissions == {<<QamLow, PskFlat>>, <<QamHigh, PskFlat>>, <<QamLow, PskNoisy>>}

\* a pattern repeated to n samples
Signal(pattern, n) ==
    Raw(Array([i \in 1 .. n |-> pattern[((i - 1) % Len(pattern)) + 1]]))

(***************************************************************************)
(* One trial: __calculate_threshold(data, attempt, q).                     *)
(***************************************************************************)
\* the values of random.random(), which lie in [0, 1), that the model draws
RandomValues == {Rat(0, 1), Rat(1, 2)}

\* random.uniform(0.0, 0.05) = 0.0 + (0.05 - 0.0) * random.random()
Uniform(u) == RatMul(Rat(R_MAX_NUM, R_MAX_DEN), u)

\* for thr_acc in [1 * ran_num, -1 * ran_num]
ThrAccs(ran_num) == <<ran_num, RatNeg(ran_num)>>

\* a faulty vote that compares with <= where the code compares with <
VoteNotStrict(var, thr_ini, label) ==
    IF Less(var, thr_ini) \/ var = thr_ini
    THEN (IF label = "PSK" THEN 1 ELSE 0)
    ELSE (IF label = "QAM" THEN 1 ELSE 0)

\* the increment of lines 38-41: 1 when the label the threshold implies
\* (var < thr_ini: PSK, otherwise QAM) is the sample's label
Vote(var, thr_ini, label) ==
    IF Less(var, thr_ini)
    THEN (IF label = "PSK" THEN 1 ELSE 0)
    ELSE (IF label = "QAM" THEN 1 ELSE 0)

\* branch_without_normalization(mod[0]) of every item of data: the extractor
\* is a pure function, so each pass over data meets these same outcomes
Features(data) ==
    Array([i \in 1 .. Len(data) |-> branch_without_normalization(data[i][1])])

\* the loop "for mod in data" (lines 35-41): every sample adds its vote to
\* cands[thr_ini]; feats[i] is what branch_without_normalization(mod[0])
\* yields for sample i.  A feature extraction that raises ends the trial.
ScoreLoop(data, feats, thr_ini, cands) ==
    IF \E i \in 1 .. Len(data) : feats[i].kind = "raise"
    THEN feats[CHOOSE i \in 1 .. Len(data) : feats[i].kind = "raise"]
    ELSE LET votes == Array([i \in 1 .. Len(data) |->
                               Vote(feats[i].value, thr_ini, data[i][2])])
         IN  Returned(DictSet(cands, thr_ini,
                              DictGet(cands, thr_ini) + SumSeq(votes)))

\* threshold_candidates[thr_ini] = 0 (line 33)
ResetCandidate(cands, thr_ini) == DictSet(cands, thr_ini, 0)

\* the loop "for thr_acc in ..." from the k-th perturbation on
RECURSIVE CandidateLoop(_, _, _, _, _, _)
CandidateLoop(data, feats, attempt, accs, cands, k) ==
    IF k > Len(accs)
    THEN Returned(cands)
    ELSE LET base == feats[attempt]
         IN  IF base.kind = "raise"
             THEN base
             ELSE Once(LAMBDA thr_ini :
                         Once(LAMBDA scored :
                                IF scored.kind = "raise"
                                THEN scored
                                ELSE CandidateLoop(data, feats, attempt, accs,
                                                   scored.value, k + 1),
                              Once(LAMBDA reset : ScoreLoop(data, feats, thr_ini, reset),
                                   ResetCandidate(cands, thr_ini))),
                       RatAdd(base.value, accs[k]))

\* a faulty trial that swallows the exception of the feature extractor and
\* goes on to put an empty dict on the queue
EvaluateSwallowing(data, attempt, ran_num) ==
    Once(LAMBDA out : IF out.kind = "raise" THEN Returned(<<>>) ELSE out,
         Once(LAMBDA feats : CandidateLoop(data, feats, attempt, ThrAccs(ran_num), <<>>, 1),
              Features(data)))

\* lines 29-41 of a trial whose draw was ran_num: the dict it will put on
\* the queue, or the exception that ends its thread
Evaluate(data, attempt, ran_num) ==
    Once(LAMBDA feats : CandidateLoop(data, feats, attempt, ThrAccs(ran_num), <<>>, 1),
         Features(data))

(***************************************************************************)
(* The reduction of threshold_calculation (lines 71-72).                   *)
(***************************************************************************)
NoValue == Rat(0, 1)

NoResult == [kind |-> "none", error |-> "", value |-> NoValue, score |-> 0]

RaisedResult(err) == [kind |-> "raise", error |-> err, value |-> NoValue, score |-> 0]

ReturnedResult(item) ==
    [kind |-> "return", error |-> "", value |-> item[1], score |-> item[2]]

\* a faulty reduction step that takes min() where the code takes max()
MinValue(d) ==
    CHOOSE v \in {d[i][2] : i \in 1 .. Len(d)} :
        \A i \in 1 .. Len(d) : v <= d[i][2]

\* max(threshold_candidates.values()) of a non-empty dict
MaxValue(d) ==
    CHOOSE v \in {d[i][2] : i \in 1 .. Len(d)} :
        \A i \in 1 .. Len(d) : d[i][2] <= v

\* list(filter(lambda x: x[1] == max_value, list(d.items())))[0]
FirstWith(d, v) ==
    d[CHOOSE i \in 1 .. Len(d) :
        /\ d[i][2] = v
        /\ \A j \in 1 .. i - 1 : d[j][2] # v]

\* a faulty reduction that answers an empty aggregate with a default pair
ReduceWithDefault(d) ==
    IF d = <<>>
    THEN ReturnedResult(<<NoValue, 0>>)
    ELSE ReturnedResult(FirstWith(d, MaxValue(d)))

\* max() of an empty sequence raises ValueError
Reduce(d) ==
    IF d = <<>>
    THEN RaisedResult("ValueError")
    ELSE ReturnedResult(FirstWith(d, MaxValue(d)))

VARIABLES
    num_gen_data,           \* argument of threshold_calculation
    num_sym_transmit,       \* argument of threshold_calculation
    seed,                   \* the values random.random() hands out, in order
    rng,                    \* how many of them have been handed out
    data,                   \* the reference set: <<signal, label>> items
    mainpc,                 \* position of threshold_calculation
    started,                \* threads started (line 62)
    joined,                 \* threads joined (line 66)
    pc,                     \* position of each trial thread
    ran_num,                \* each trial's draw
    local,                  \* each trial's own threshold_candidates
    q,                      \* the Queue: dicts in put order
    remaining,              \* iterations left of "for i in range(q.qsize())"
    threshold_candidates,   \* the aggregate dict of threshold_calculation
    result,                 \* what threshold_calculation returned or raised
    run,                    \* which call of threshold_calculation this is
    first,                  \* the result of the first call
    call                    \* a call of identifier or of the feature extractor

vars == <<num_gen_data, num_sym_transmit, seed, rng, data, mainpc, started, joined,
          pc, ran_num, local, q, remaining, threshold_candidates, result, run,
          first, call>>

Trials == 1 .. num_gen_data

Finished(t) == pc[t] \in {"done", "failed"}

NoCall == [op |-> "none"]

(***************************************************************************)
(* threshold_calculation(num_sym, num_sym_transmit, num_gen_data).         *)
(***************************************************************************)
InitCalibrate ==
    /\ num_gen_data \in 0 .. MaxGen
    /\ num_sym_transmit \in {0, MaxTransmit}
    /\ seed \in [1 .. num_gen_data -> RandomValues]
    /\ rng = 0
    /\ data = <<>>
    /\ mainpc = "generate"
    /\ started = 0
    /\ joined = 0
    /\ pc = [t \in Trials |-> "idle"]
    /\ ran_num = [t \in Trials |-> NoValue]
    /\ local = [t \in Trials |-> <<>>]
    /\ q = <<>>
    /\ remaining = 0
    /\ threshold_candidates = <<>>
    /\ result = NoResult
    /\ run = 1
    /\ first = NoResult
    /\ call = NoCall

\* lines 53-58: one iteration appends a QAM and a PSK signal
Generate ==
    /\ mainpc = "generate"
    /\ IF Len(data) < 2 * num_gen_data
       THEN \E tx \in Transmissions :
                data' = data \o << <<Signal(tx[1], num_sym_transmit), "QAM">>,
                                   <<Signal(tx[2], num_sym_transmit), "PSK">> >>
            /\ UNCHANGED mainpc
       ELSE mainpc' = "start" /\ UNCHANGED data
    /\ UNCHANGED <<num_gen_data, num_sym_transmit, seed, rng, started, joined, pc,
                   ran_num, local, q, remaining, threshold_candidates, result,
                   run, first, call>>

\* lines 60-63: start the thread of the next attempt
StartThread ==
    /\ mainpc = "start"
    /\ IF started < num_gen_data
       THEN /\ started' = started + 1
            /\ pc' = [pc EXCEPT ![started + 1] = "draw"]
            /\ UNCHANGED mainpc
       ELSE mainpc' = "join" /\ UNCHANGED <<started, pc>>
    /\ UNCHANGED <<num_gen_data, num_sym_transmit, seed, rng, data, joined, ran_num,
                   local, q, remaining, threshold_candidates, result, run, first,
                   call>>

\* a faulty join that returns whether or not the thread has ended
JoinReturnsAtOnce(t) == TRUE

\* thread.join() returns once the thread has ended
JoinReturns(t) == Finished(t)

\* lines 65-66: join the threads in the order they were started
Join ==
    /\ mainpc = "join"
    /\ IF joined < num_gen_data
       THEN /\ JoinReturns(joined + 1)
            /\ joined' = joined + 1
            /\ UNCHANGED mainpc
       ELSE mainpc' = "qsize" /\ UNCHANGED joined
    /\ UNCHANGED <<num_gen_data, num_sym_transmit, seed, rng, data, started, pc,
                   ran_num, local, q, remaining, threshold_candidates, result,
                   run, first, call>>

\* a faulty loop bound that iterates once more than the queue holds results
DrainCountOneMore(queue) == Len(queue) + 1

\* range(q.qsize()) of line 68, evaluated once
DrainCount(queue) == Len(queue)

QSize ==
    /\ mainpc = "qsize"
    /\ remaining' = DrainCount(q)
    /\ mainpc' = "drain"
    /\ UNCHANGED <<num_gen_data, num_sym_transmit, seed, rng, data, started, joined,
                   pc, ran_num, local, q, threshold_candidates, result, run, first,
                   call>>

\* line 69: threshold_candidates.update(q.get()); q.get() blocks on an empty queue
Drain ==
    /\ mainpc = "drain"
    /\ IF remaining > 0
       THEN /\ q # <<>>
            /\ threshold_candidates' = DictUpdate(threshold_candidates, Head(q))
            /\ q' = Tail(q)
            /\ remaining' = remaining - 1
            /\ UNCHANGED mainpc
       ELSE mainpc' = "reduce" /\ UNCHANGED <<q, remaining, threshold_candidates>>
    /\ UNCHANGED <<num_gen_data, num_sym_transmit, seed, rng, data, started, joined,
                   pc, ran_num, local, result, run, first, call>>

\* lines 71-72
Return ==
    /\ mainpc = "reduce"
    /\ result' = Reduce(threshold_candidates)
    /\ mainpc' = "done"
    /\ UNCHANGED <<num_gen_data, num_sym_transmit, seed, rng, data, started, joined,
                   pc, ran_num, local, q, remaining, threshold_candidates, run,
                   first, call>>

(***************************************************************************)
(* The trial threads.                                                      *)
(***************************************************************************)
\* lines 29-41: the draw from the generator all threads share, then the two
\* candidates scored against the trial's copy of data (work on the thread's
\* own objects only); an exception of the feature extractor ends the thread
TrialEvaluate(t) ==
    /\ pc[t] = "draw"
    /\ rng < Len(seed)
    /\ rng' = rng + 1
    /\ \E drawn \in {Uniform(seed[rng + 1])} :
         /\ ran_num' = [ran_num EXCEPT ![t] = drawn]
         /\ \E out \in {Evaluate(data, t, drawn)} :
              IF out.kind = "raise"
              THEN pc' = [pc EXCEPT ![t] = "failed"] /\ UNCHANGED local
              ELSE /\ pc' = [pc EXCEPT ![t] = "put"]
                   /\ local' = [local EXCEPT ![t] = out.value]
    /\ UNCHANGED <<num_gen_data, num_sym_transmit, seed, data, mainpc, started,
                   joined, q, remaining, threshold_candidates, result, run, first,
                   call>>

\* line 43: q.put(threshold_candidates)
TrialPut(t) ==
    /\ pc[t] = "put"
    /\ q' = Append(q, local[t])
    /\ pc' = [pc EXCEPT ![t] = "done"]
    /\ UNCHANGED <<num_gen_data, num_sym_transmit, seed, rng, data, mainpc, started,
                   joined, ran_num, local, remaining, threshold_candidates, result,
                   run, first, call>>

TrialStep(t) == t \in Trials /\ (TrialEvaluate(t) \/ TrialPut(t))

MainStep == Generate \/ StartThread \/ Join \/ QSize \/ Drain \/ Return

\* threshold_calculation called a second time on the same reference set with
\* the generators reseeded as for the first call: fresh locals (lines 46-51),
\* the same values handed out by random.random() from the start
Rerun ==
    /\ mainpc = "done"
    /\ run = 1
    /\ run' = 2
    /\ first' = result
    /\ rng' = 0
    /\ mainpc' = "generate"
    /\ started' = 0
    /\ joined' = 0
    /\ pc' = [t \in Trials |-> "idle"]
    /\ ran_num' = [t \in Trials |-> NoValue]
    /\ local' = [t \in Trials |-> <<>>]
    /\ q' = <<>>
    /\ remaining' = 0
    /\ threshold_candidates' = <<>>
    /\ result' = NoResult
    /\ UNCHANGED <<num_gen_data, num_sym_transmit, seed, data, call>>

(***************************************************************************)
(* Calls of the classifier and of the feature extractor.                   *)
(***************************************************************************)
\* identifier(data, threshold, threshold_normalized), lines 89-95
identifier(signal, threshold, threshold_normalized) ==
    LET var == branch_without_normalization(signal)
    IN  IF var.kind = "raise"
        THEN var
        ELSE Returned(IF Less(var.value, threshold) THEN "PSK" ELSE "QAM")

\* the signals handed to the classifier and to the extractor: every prefix
\* length of the patterns
CallSignals ==
    {Signal(p, n) : p \in {QamLow, QamHigh, PskFlat, PskNoisy}, n \in 0 .. MaxTransmit}

\* the thresholds handed to the classifier
CallThresholds == {Rat(k, 2 * MaxTransmit) : k \in 0 .. MaxThreshold}

InitCalls ==
    /\ num_gen_data = 0
    /\ num_sym_transmit = 0
    /\ seed = <<>>
    /\ rng = 0
    /\ data = <<>>
    /\ mainpc = "idle"
    /\ started = 0
    /\ joined = 0
    /\ pc = <<>>
    /\ ran_num = <<>>
    /\ local = <<>>
    /\ q = <<>>
    /\ remaining = 0
    /\ threshold_candidates = <<>>
    /\ result = NoResult
    /\ run = 1
    /\ first = NoResult
    /\ call = NoCall

CalibrateVars ==
    <<num_gen_data, num_sym_transmit, seed, rng, data, mainpc, started, joined, pc,
      ran_num, local, q, remaining, threshold_candidates, result, run, first>>

CallIdentifier ==
    /\ call = NoCall
    /\ \E signal \in CallSignals, threshold \in CallThresholds,
          threshold_normalized \in BOOLEAN :
          call' = [op |-> "identifier", signal |-> signal, threshold |-> threshold,
                   normalized |-> threshold_normalized,
                   out |-> identifier(signal, threshold, threshold_normalized)]
    /\ UNCHANGED CalibrateVars

CallBranchWithoutNormalization ==
    /\ call = NoCall
    /\ \E signal \in CallSignals :
          call' = [op |-> "extract", signal |-> signal, threshold |-> NoValue,
                   normalized |-> FALSE,
                   out |-> branch_without_normalization(signal)]
    /\ UNCHANGED CalibrateVars

CallBranchWithNormalization ==
    /\ call = NoCall
    /\ \E signal \in CallSignals :
          call' = [op |-> "extract", signal |-> signal, threshold |-> NoValue,
                   normalized |-> TRUE,
                   out |-> branch_with_normalization(signal)]
    /\ UNCHANGED CalibrateVars

(***************************************************************************)
(* Specifications.                                                         *)
(***************************************************************************)
Init == InitCalibrate

Next ==
    \/ Generate
    \/ StartThread
    \/ Join
    \/ QSize
    \/ Drain
    \/ Return
    \/ \E t \in Trials : TrialEvaluate(t)
    \/ \E t \in Trials : TrialPut(t)

\* one call of threshold_calculation
Spec == Init /\ [][Next]_vars

\* the same, every thread scheduled again and again while it can run
FairSpec ==
    /\ Spec
    /\ WF_vars(MainStep)
    /\ \A t \in 1 .. MaxGen : WF_vars(TrialStep(t))

NextTwice == Next \/ Rerun

\* two calls of threshold_calculation with the same reference set and seed
SpecTwice == Init /\ [][NextTwice]_vars

NextCalls ==
    \/ CallIdentifier
    \/ CallBranchWithoutNormalization
    \/ CallBranchWithNormalization

\* calls of identifier and of the feature extractor
SpecCalls == InitCalls /\ [][NextCalls]_vars

(***************************************************************************)
(* Properties.                                                             *)
(***************************************************************************)
Done == mainpc = "done"

\* the trials that put their candidates on the queue
Emitted == {t \in Trials : pc[t] = "done"}

\* the (value, Score) items a trial evaluated
Candidates(t) == {local[t][i] : i \in 1 .. Len(local[t])}

\* the feature of the i-th item of the reference set
FeatureOf(i) == branch_without_normalization(data[i][1]).value

\* the samples of the reference set that threshold v classifies as labelled
CorrectUnder(v) ==
    {i \in 1 .. Len(data) :
        IF Less(FeatureOf(i), v) THEN data[i][2] = "PSK" ELSE data[i][2] = "QAM"}

\* the Score of threshold v against the reference set
ScoreOf(v) == Cardinality(CorrectUnder(v))

\* the k-th candidate value of trial t: its baseline feature plus or minus
\* the perturbation it drew
CandidateValue(t, k) == RatAdd(FeatureOf(t), ThrAccs(ran_num[t])[k])

\* how often the emitted candidates have the value v
Occurrences(v) ==
    Cardinality({tk \in Emitted \X {1, 2} : CandidateValue(tk[1], tk[2]) = v})

\* every PSK feature lies strictly below every QAM feature
Separable ==
    /\ Len(data) > 0
    /\ num_sym_transmit > 0
    /\ \A i, j \in 1 .. Len(data) :
          (data[i][2] = "PSK" /\ data[j][2] = "QAM")
              => Less(FeatureOf(i), FeatureOf(j))

\* v separates the classes: above every PSK feature, not above any QAM feature
Separates(v) ==
    \A i \in 1 .. Len(data) :
        IF data[i][2] = "PSK" THEN Less(FeatureOf(i), v) ELSE ~Less(FeatureOf(i), v)

\* C1: the Score of the returned pair is at least the Score of every
\* candidate any trial of the run evaluated.
C1_ReturnedScoreIsMaximal ==
    (Done /\ result.kind = "return") =>
        \A t \in Trials : \A c \in Candidates(t) : c[2] <= result.score

C1_Witness ==
    /\ Done
    /\ result.kind = "return"
    /\ num_gen_data = 2
    /\ \E t \in Trials : \E c \in Candidates(t) : c[2] < result.score

\* C2: a second call with the same reference set and the same seed returns
\* what the first call returned, whatever the scheduling of the trials.
C2_SameSeedSameResult ==
    (run = 2 /\ Done) => result = first

\* the feature the classifier is to compare: extract(signal, normalize)
ExtractAs(signal, normalize) ==
    IF normalize
    THEN branch_with_normalization(signal)
    ELSE branch_without_normalization(signal)

\* C3: identifier compares the feature computed in the normalization mode of
\* the threshold and returns PSK exactly when it is strictly below the
\* threshold, QAM otherwise.
C3_ClassifiesInThresholdMode ==
    (call.op = "identifier" /\ call.out.kind = "return") =>
        /\ call.out.value \in {"PSK", "QAM"}
        /\ call.out.value = "PSK" <=>
              Less(ExtractAs(call.signal, call.normalized).value, call.threshold)

\* C4 as stated: on a separable reference set the returned Score is the size
\* of the reference set.
C4_SeparableGivesFullScore ==
    (Done /\ result.kind = "return" /\ Separable) => result.score = Len(data)

\* C4 amended: on a separable reference set, when some emitted candidate
\* lies above every PSK feature and not above any QAM feature, the returned
\* Score is the size of the reference set.
C4_SeparatingCandidateGivesFullScore ==
    (/\ Done
     /\ result.kind = "return"
     /\ Separable
     /\ \E t \in Emitted : \E c \in Candidates(t) : Separates(c[1]))
        => result.score = Len(data)

C4_Witness ==
    /\ Done
    /\ Separable
    /\ Len(data) = 4
    /\ \E t \in Emitted : \E c \in Candidates(t) : Separates(c[1])
    /\ \E t \in Emitted : \E c \in Candidates(t) : ~Separates(c[1])
    /\ result.score = Len(data)

\* C5: a call with an empty reference set raises (max() of the empty
\* aggregate: ValueError) and returns no threshold.
C5_EmptyReferenceSetRaises ==
    (Done /\ Len(data) = 0) => (result.kind = "raise" /\ result.error = "ValueError")

C5_Witness ==
    /\ Done
    /\ num_gen_data = 0
    /\ result.kind = "raise"

\* C6: a trial whose feature extraction fails puts nothing on the queue and
\* leaves the other trials and their candidates alone; the call returns a
\* candidate of an emitting trial when there is one and raises when every
\* trial failed.
C6_FailedTrialContributesNothing ==
    /\ [](\A t \in Trials : pc[t] = "failed" => Candidates(t) = {})
    /\ [](Done =>
            IF Emitted # {}
            THEN /\ result.kind = "return"
                 /\ \E t \in Emitted : <<result.value, result.score>> \in Candidates(t)
            ELSE result.kind = "raise")
    /\ [][\A t \in Trials :
            (pc[t] # "failed" /\ pc'[t] = "failed") =>
                /\ q' = q
                /\ local' = local
                /\ \A u \in Trials \ {t} : pc'[u] = pc[u]]_vars

C6_Witness ==
    /\ Done
    /\ num_gen_data = 2
    /\ \A t \in Trials : pc[t] = "failed"
    /\ q = <<>>
    /\ result.kind = "raise"

\* C7: for a signal shorter than the median-filter window the extractor
\* raises instead of returning a feature.
C7_ShortSignalRaises ==
    (call.op = "extract" /\ Len(call.signal.v) < KERNEL_SIZE) => call.out.kind = "raise"

\* C8: the queue is read and the aggregate written only once every trial
\* thread has ended, and no step of a trial changes the aggregate.
C8_ReductionAfterAllTrials ==
    /\ [](mainpc \in {"qsize", "drain", "reduce", "done"} =>
            \A t \in Trials : Finished(t))
    /\ [][(threshold_candidates' # threshold_candidates \/ Len(q') < Len(q)) =>
            \A t \in Trials : Finished(t)]_vars
    /\ [][(\E t \in Trials : pc'[t] # pc[t]) =>
            threshold_candidates' = threshold_candidates]_vars

C8_Witness ==
    /\ mainpc = "drain"
    /\ num_gen_data = 2
    /\ remaining = 1
    /\ Len(threshold_candidates) > 0
    /\ \A t \in Trials : pc[t] = "done"

\* C9 as stated: the Score stored for a value is the sum of the Scores of
\* all its occurrences among the emitted candidates.
C9_StoredScoreIsSumOfOccurrences ==
    Done =>
        \A i \in 1 .. Len(threshold_candidates) :
            threshold_candidates[i][2] =
                Occurrences(threshold_candidates[i][1]) * ScoreOf(threshold_candidates[i][1])

\* C9 amended: the Score stored for a value is the Score of one occurrence
\* (a later occurrence overwrites an earlier one), which is the number of
\* samples the value classifies correctly and never exceeds the size of the
\* reference set.
C9_StoredScoreIsOneOccurrence ==
    Done =>
        \A i \in 1 .. Len(threshold_candidates) :
            /\ threshold_candidates[i][2] = ScoreOf(threshold_candidates[i][1])
            /\ threshold_candidates[i][2] <= Len(data)

C9_Witness ==
    /\ Done
    /\ \E i \in 1 .. Len(threshold_candidates) :
          /\ threshold_candidates[i][2] > 0
          /\ \E t, u \in Emitted :
                /\ t # u
                /\ CandidateValue(t, 1) = threshold_candidates[i][1]
                /\ CandidateValue(u, 1) = threshold_candidates[i][1]
    /\ \E t \in Emitted : ran_num[t] = Rat(0, 1)

\* C10: under fair scheduling the call ends; the drain loop gets exactly the
\* results that were put: it never waits on an empty queue and leaves none.
C10_TerminatesAndDrainsExactly ==
    /\ <>Done
    /\ [](mainpc = "drain" => remaining = Len(q))
    /\ [](mainpc \in {"reduce", "done"} => q = <<>>)

C10_Witness ==
    /\ Done
    /\ num_gen_data = 2
    /\ q = <<>>
    /\ Emitted = Trials
    /\ result.kind = "return"
====
